---- MODULE Spec2Model ----
(***************************************************************************)
(* Model of create_data_tar.py: locate a .changes manifest, collect the    *)
(* .deb files it references, extract each with dpkg-deb into               *)
(* data/<pkg>/<arch>/, pack data/ as <changes_basename>.tar.gz.            *)
(*                                                                         *)
(* Python strings are modelled as sequences of one-character strings, so   *)
(* that suffix tests, splitting, the regular expressions and the path      *)
(* functions are computed character by character as the code computes them.*)
(***************************************************************************)
EXTENDS Integers, Sequences, FiniteSets, Bags, TLC

VARIABLES
    \* the command line and the host
    args,           \* [path_to_changes, output_tar, distro]: argparse's namespace
    listing,        \* entries [name, mtime] of the directory Dir, in the order
                    \*   the operating system enumerates them
    readable,       \* whether open() of the .changes file succeeds
    text,           \* content of the .changes file
    onDisk,         \* paths of the .deb files that exist
    corrupt,        \* paths of the .deb files dpkg-deb exits nonzero on
    toolPresent,    \* whether dpkg-deb is installed
    dataKind,       \* what <work_dir>/data is: "absent", "dir" or "file"
    tree,           \* paths of the directories and files below data/
    archive,        \* the file at tar_path: [exists, complete, entries]
    \* the program
    pc,             \* stage main() is at; "done" after sys.exit
    run,            \* number of the current run of the program
    changes_path,   \* main: changes_path
    work_dir,       \* main: work_dir
    debs,           \* collect_debs_from_changes: debs (before de-duplication)
    deb_names,      \* main: deb_names
    idx,            \* extract_debs_to_data: position of the for loop
    extracted_any,  \* extract_debs_to_data: extracted_any
    ok,             \* main: ok ("unset" until the extractor returns)
    tar_path,       \* main: tar_path
    exit_code,      \* argument of sys.exit ("none" while running)
    \* what the current run did so far
    stages,         \* stages that succeeded, in order
    failed,         \* the fatal path taken, "none" if none
    resolved,       \* references the loop computed deb_path for
    calls,          \* [path, outcome] of each subprocess.run of dpkg-deb
    wrote,          \* tarfile.open created or truncated the file at tar_path
    start,          \* [dataKind, tree] when the run began
    first_archive   \* the archive the first run left

vars == <<args, listing, readable, text, onDisk, corrupt, toolPresent, dataKind,
          tree, archive, pc, run, changes_path, work_dir, debs, deb_names, idx,
          extracted_any, ok, tar_path, exit_code, stages, failed, resolved,
          calls, wrote, start, first_archive>>

----------------------------------------------------------------------------
(* String constants of the source *)

DotDeb     == <<".", "d", "e", "b">>
DotChanges == <<".", "c", "h", "a", "n", "g", "e", "s">>
DotTarGz   == <<".", "t", "a", "r", ".", "g", "z">>

(* str.endswith / str.startswith / `in` *)
EndsWith(s, suf) ==
    /\ Len(s) >= Len(suf)
    /\ SubSeq(s, Len(s) - Len(suf) + 1, Len(s)) = suf

StartsWith(s, pre) ==
    /\ Len(s) >= Len(pre)
    /\ SubSeq(s, 1, Len(pre)) = pre

Contains(s, sub) ==
    \E i \in 1..(Len(s) - Len(sub) + 1) : SubSeq(s, i, i + Len(sub) - 1) = sub

(* the characters str.split() and str.splitlines() break at *)
Whitespace == {" ", "\t", "\n"}
LineBreaks == {"\n"}

(* tokens of s between characters of seps, empty tokens dropped: str.split() *)
RECURSIVE SplitFrom(_, _, _, _)
SplitFrom(s, seps, i, cur) ==
    IF i > Len(s)
    THEN IF cur = <<>> THEN <<>> ELSE <<cur>>
    ELSE IF s[i] \in seps
         THEN IF cur = <<>>
              THEN SplitFrom(s, seps, i + 1, <<>>)
              ELSE <<cur>> \o SplitFrom(s, seps, i + 1, <<>>)
         ELSE SplitFrom(s, seps, i + 1, Append(cur, s[i]))

Split(s) == SplitFrom(s, Whitespace, 1, <<>>)

(* str.splitlines(): pieces between line breaks, empty lines kept *)
RECURSIVE SplitLinesFrom(_, _, _)
SplitLinesFrom(s, i, cur) ==
    IF i > Len(s)
    THEN IF cur = <<>> THEN <<>> ELSE <<cur>>
    ELSE IF s[i] \in LineBreaks
         THEN <<cur>> \o SplitLinesFrom(s, i + 1, <<>>)
         ELSE SplitLinesFrom(s, i + 1, Append(cur, s[i]))

SplitLines(s) == SplitLinesFrom(s, 1, <<>>)

----------------------------------------------------------------------------
(* collect_debs_from_changes *)

(* The primary pattern is the raw string r'(^|\\s)([^\\s]+\\.deb)\\b'.     *)
(* In a raw string each \\ reaches the regex engine as two backslashes,    *)
(* i.e. one literal backslash:                                             *)
(*   (^|\\s)    start of the text, or a backslash followed by "s"          *)
(*   [^\\s]+    one or more characters other than backslash and "s"        *)
(*   \\.deb     a backslash, any character but a newline, "d" "e" "b"      *)
(*   \\b        a backslash followed by "b"                                *)
ClassChar(c) == c \notin {"\\", "s"}

(* last index of the longest run of class characters starting at q *)
RECURSIVE RunEnd(_, _)
RunEnd(t, q) ==
    IF q <= Len(t) /\ ClassChar(t[q]) THEN RunEnd(t, q + 1) ELSE q - 1

(* Group 2 and the rest of the pattern tried at index q: the index of the  *)
(* last matched character, 0 when there is no match.  The run must be     *)
(* followed by a backslash, which is not a class character, so only the   *)
(* longest run can match.                                                  *)
TailMatch(t, q) ==
    LET r == RunEnd(t, q) IN
    IF /\ r >= q
       /\ r + 7 <= Len(t)
       /\ t[r + 1] = "\\"
       /\ t[r + 2] # "\n"
       /\ SubSeq(t, r + 3, r + 5) = <<"d", "e", "b">>
       /\ t[r + 6] = "\\"
       /\ t[r + 7] = "b"
    THEN r + 7 ELSE 0

(* the match starting at index p: [end, fn] with fn the second group *)
MatchAt(t, p) ==
    IF p = 1 /\ TailMatch(t, 1) # 0
    THEN [end |-> TailMatch(t, 1), fn |-> SubSeq(t, 1, TailMatch(t, 1) - 2)]
    ELSE IF /\ p + 1 <= Len(t)
            /\ t[p] = "\\"
            /\ t[p + 1] = "s"
            /\ TailMatch(t, p + 2) # 0
         THEN [end |-> TailMatch(t, p + 2),
               fn  |-> SubSeq(t, p + 2, TailMatch(t, p + 2) - 2)]
         ELSE [end |-> 0, fn |-> <<>>]

(* re.findall: leftmost matches, the scan resuming after each match *)
RECURSIVE FindAllFrom(_, _)
FindAllFrom(t, p) ==
    IF p > Len(t) THEN <<>>
    ELSE LET m == MatchAt(t, p) IN
         IF m.end # 0
         THEN <<m.fn>> \o FindAllFrom(t, m.end + 1)
         ELSE FindAllFrom(t, p + 1)

PrimaryScan(t) == FindAllFrom(t, 1)

(* the tokens of one line that end in .deb *)
LineDebs(line) ==
    IF Contains(line, DotDeb)
    THEN SelectSeq(Split(line), LAMBDA tok : EndsWith(tok, DotDeb))
    ELSE <<>>

RECURSIVE FlattenLines(_, _)
FlattenLines(lines, i) ==
    IF i > Len(lines) THEN <<>>
    ELSE LineDebs(lines[i]) \o FlattenLines(lines, i + 1)

FallbackScan(t) == FlattenLines(SplitLines(t), 1)

(* list(dict.fromkeys(debs)) *)
RECURSIVE DedupFrom(_, _, _)
DedupFrom(s, i, seen) ==
    IF i > Len(s) THEN <<>>
    ELSE IF s[i] \in seen
         THEN DedupFrom(s, i + 1, seen)
         ELSE <<s[i]>> \o DedupFrom(s, i + 1, seen \cup {s[i]})

(* mutant: the last occurrence of each entry is kept, not the first *)
RECURSIVE KeepLastFrom(_, _)
KeepLastFrom(s, i) ==
    IF i > Len(s) THEN <<>>
    ELSE IF \E j \in (i + 1)..Len(s) : s[j] = s[i]
         THEN KeepLastFrom(s, i + 1)
         ELSE <<s[i]>> \o KeepLastFrom(s, i + 1)

Dedup_KeepLast(s) == KeepLastFrom(s, 1)

Dedup(s) == DedupFrom(s, 1, {})

(* lines 94-101: the fallback runs when the primary scan found nothing *)
ScanDebs(t) ==
    LET primary == PrimaryScan(t)
    IN IF primary # <<>> THEN primary ELSE FallbackScan(t)

----------------------------------------------------------------------------
(* os.path (posixpath) *)

Cwd == <<"/", "w">>      \* os.getcwd()

IsAbs(p) == StartsWith(p, <<"/">>)

(* os.path.join(a, b) *)
Join(a, b) ==
    IF IsAbs(b) THEN b
    ELSE IF a = <<>> \/ EndsWith(a, <<"/">>) THEN a \o b
    ELSE a \o <<"/">> \o b

(* str.rfind(c) + 1: the index of the last c, 0 when there is none *)
RECURSIVE LastIndexFrom(_, _, _)
LastIndexFrom(s, c, i) ==
    IF i = 0 THEN 0
    ELSE IF s[i] = c THEN i ELSE LastIndexFrom(s, c, i - 1)

LastIndex(s, c) == LastIndexFrom(s, c, Len(s))

(* str.rstrip('/') *)
RECURSIVE RStripSlash(_)
RStripSlash(s) ==
    IF s # <<>> /\ s[Len(s)] = "/" THEN RStripSlash(SubSeq(s, 1, Len(s) - 1)) ELSE s

Basename(p) == SubSeq(p, LastIndex(p, "/") + 1, Len(p))

Dirname(p) ==
    LET head == SubSeq(p, 1, LastIndex(p, "/")) IN
    IF head # <<>> /\ \E k \in 1..Len(head) : head[k] # "/"
    THEN RStripSlash(head)
    ELSE head

(* os.path.splitext(base)[0] for a name without slashes: the name up to its *)
(* last dot, unless only dots precede that dot *)
SplitextRoot(base) ==
    LET dot == LastIndex(base, ".") IN
    IF dot > 0 /\ \E k \in 1..(dot - 1) : base[k] # "."
    THEN SubSeq(base, 1, dot - 1)
    ELSE base

(* the loop of os.path.normpath over the components *)
RECURSIVE NormComps(_, _, _, _)
NormComps(comps, i, rooted, acc) ==
    IF i > Len(comps) THEN acc
    ELSE LET c == comps[i] IN
         IF c = <<".">> THEN NormComps(comps, i + 1, rooted, acc)
         ELSE IF \/ c # <<".", ".">>
                 \/ (~rooted /\ acc = <<>>)
                 \/ (acc # <<>> /\ acc[Len(acc)] = <<".", ".">>)
              THEN NormComps(comps, i + 1, rooted, Append(acc, c))
              ELSE IF acc # <<>>
                   THEN NormComps(comps, i + 1, rooted, SubSeq(acc, 1, Len(acc) - 1))
                   ELSE NormComps(comps, i + 1, rooted, acc)

(* '/'.join(comps) *)
RECURSIVE JoinComps(_, _)
JoinComps(comps, i) ==
    IF i > Len(comps) THEN <<>>
    ELSE IF i = Len(comps) THEN comps[i]
    ELSE comps[i] \o <<"/">> \o JoinComps(comps, i + 1)

(* os.path.normpath *)
NormPath(p) ==
    IF p = <<>> THEN <<".">>
    ELSE LET slashes == IF ~IsAbs(p) THEN <<>>
                        ELSE IF StartsWith(p, <<"/", "/">>) /\ ~StartsWith(p, <<"/", "/", "/">>)
                             THEN <<"/", "/">>
                             ELSE <<"/">>
             comps   == NormComps(SplitFrom(p, {"/"}, 1, <<>>), 1, IsAbs(p), <<>>)
             path    == slashes \o JoinComps(comps, 1)
         IN IF path = <<>> THEN <<".">> ELSE path

(* os.path.abspath *)
AbsPath(p) == NormPath(IF IsAbs(p) THEN p ELSE Join(Cwd, p))

----------------------------------------------------------------------------
(* The file system the locator sees: one directory Dir whose entries are   *)
(* regular files; nothing else exists.                                      *)

Dir == <<"/", "w">>

IsDir(p, ls) == p = Dir

IsFile(p, ls) == \E k \in 1..Len(ls) : Join(Dir, ls[k].name) = p

(* glob.glob(os.path.join(d, '*.changes')): the entries of d whose name    *)
(* matches, in enumeration order; a name that begins with a dot is never   *)
(* matched by a pattern that begins with '*'                               *)
GlobMatches(name) == EndsWith(name, DotChanges) /\ name[1] # "."

Glob(d, ls) ==
    LET hits == SelectSeq(ls, LAMBDA e : GlobMatches(e.name))
    IN [k \in 1..Len(hits) |-> [path |-> Join(d, hits[k].name), mtime |-> hits[k].mtime]]

(* max(candidates, key=getmtime): the first candidate of the largest key *)
RECURSIVE MaxByMtimeFrom(_, _, _)
MaxByMtimeFrom(cands, i, best) ==
    IF i > Len(cands) THEN best
    ELSE IF cands[i].mtime > best.mtime
         THEN MaxByMtimeFrom(cands, i + 1, cands[i])
         ELSE MaxByMtimeFrom(cands, i + 1, best)

(* mutant: max() without its key, the first candidate wins *)
MaxByMtime_NoKey(cands) == cands[1]

MaxByMtime(cands) == MaxByMtimeFrom(cands, 2, cands[1])

(* find_changes_file: [raised, path] *)
find_changes_file(path_to_changes, ls) ==
    LET given == IF path_to_changes = <<>> THEN <<".">> ELSE path_to_changes
        abs   == AbsPath(given)
    IN IF IsFile(abs, ls) /\ EndsWith(abs, DotChanges)
       THEN [raised |-> FALSE, path |-> abs]
       ELSE IF IsDir(abs, ls)
            THEN IF Glob(abs, ls) = <<>>
                 THEN [raised |-> TRUE, path |-> <<>>]
                 ELSE [raised |-> FALSE, path |-> AbsPath(MaxByMtime(Glob(abs, ls)).path)]
            ELSE [raised |-> TRUE, path |-> <<>>]

----------------------------------------------------------------------------
(* collect_debs_from_changes as a whole: [raised, debs, uniq] *)

(* mutant: an empty list of references is returned, not raised *)
collect_debs_NoRaise(can_read, t) ==
    IF ~can_read
    THEN [raised |-> TRUE, debs |-> <<>>, uniq |-> <<>>]
    ELSE [raised |-> FALSE, debs |-> ScanDebs(t), uniq |-> Dedup(ScanDebs(t))]

collect_debs_from_changes(can_read, t) ==
    IF ~can_read
    THEN [raised |-> TRUE, debs |-> <<>>, uniq |-> <<>>]
    ELSE LET found == ScanDebs(t)
             uniq  == Dedup(found)
         IN [raised |-> uniq = <<>>, debs |-> found, uniq |-> uniq]

----------------------------------------------------------------------------
(* extract_debs_to_data *)

DataRoot(wd) == Join(wd, <<"d", "a", "t", "a">>)

(* line 121 *)
DebPath(wd, deb_name) == IF IsAbs(deb_name) THEN deb_name ELSE Join(wd, deb_name)

RECURSIVE FirstIndexFrom(_, _, _)
FirstIndexFrom(s, c, i) ==
    IF i > Len(s) THEN 0
    ELSE IF s[i] = c THEN i ELSE FirstIndexFrom(s, c, i + 1)

(* line 128: base.split('_')[0] if '_' in base else splitext(base)[0] *)
PkgName(base) ==
    IF FirstIndexFrom(base, "_", 1) # 0
    THEN SubSeq(base, 1, FirstIndexFrom(base, "_", 1) - 1)
    ELSE SplitextRoot(base)

(* line 129 *)
DestDir(wd, deb_path, arch) ==
    Join(Join(DataRoot(wd), PkgName(Basename(deb_path))), arch)

(* os.makedirs(dest, exist_ok=True): dest and its missing parents below root *)
RECURSIVE DirsBelow(_, _)
DirsBelow(root, d) ==
    IF Len(d) <= Len(root) \/ ~StartsWith(d, root) THEN {}
    ELSE {d} \cup DirsBelow(root, Dirname(d))

(* what dpkg-deb -x deb_path dest_dir unpacks: the payload of the archive, *)
(* here one file named after the archive *)
Payload(deb_path, dest_dir) == {Join(dest_dir, Basename(deb_path))}

(* mutant: the extractor reports success whatever was extracted *)
ExtractResult_AlwaysTrue(any) == TRUE

(* lines 142-145: the value extract_debs_to_data returns after the loop *)
ExtractResult(any) == any

----------------------------------------------------------------------------
(* main, lines 193-205, and create_tar_of_data *)

(* re.sub(r'\.changes$', '.tar.gz', base); $ also matches before a final   *)
(* newline.  Lines 195-196 append the extension when nothing was replaced. *)
TarName(base) ==
    LET n   == Len(base)
        sub == IF EndsWith(base, DotChanges)
               THEN SubSeq(base, 1, n - 8) \o DotTarGz
               ELSE IF EndsWith(base, DotChanges \o <<"\n">>)
                    THEN SubSeq(base, 1, n - 9) \o DotTarGz \o <<"\n">>
                    ELSE base
    IN IF sub = base THEN base \o DotTarGz ELSE sub

Prebuilt(distro) == <<"p", "r", "e", "b", "u", "i", "l", "t", "_">> \o distro

(* mutant: without --output-tar the archive goes to work_dir, --distro or not *)
TarPath_DistroDropped(a, wd, tar_name) ==
    IF a.output_tar # <<>>
    THEN LET base_output_dir == AbsPath(a.output_tar)
             dest_dir == IF a.distro # <<>>
                         THEN Join(base_output_dir, Prebuilt(a.distro))
                         ELSE base_output_dir
         IN Join(dest_dir, tar_name)
    ELSE Join(wd, tar_name)

(* lines 198-205 *)
TarPath(a, wd, tar_name) ==
    IF a.output_tar # <<>>
    THEN LET base_output_dir == AbsPath(a.output_tar)
             dest_dir == IF a.distro # <<>>
                         THEN Join(base_output_dir, Prebuilt(a.distro))
                         ELSE base_output_dir
         IN Join(dest_dir, tar_name)
    ELSE LET dest_dir == IF a.distro # <<>>
                         THEN Join(wd, Prebuilt(a.distro))
                         ELSE wd
         IN Join(dest_dir, tar_name)

(* the member names tar.add(data_root, arcname='data') gives the tree *)
ArcName(root, p) == <<"d", "a", "t", "a">> \o SubSeq(p, Len(root) + 1, Len(p))

Members(root, t) == SetToBag({<<"d", "a", "t", "a">>} \cup {ArcName(root, p) : p \in t})

NoArchive == [exists |-> FALSE, complete |-> FALSE, entries |-> EmptyBag]

(* mutant: the archive is opened for appending, its members are kept *)
TarOpen_Append(old) == [exists |-> TRUE, complete |-> FALSE, entries |-> old.entries]

(* tarfile.open(tar_path, 'w:gz'): a new, empty archive replaces the file *)
TarOpen(old) == [exists |-> TRUE, complete |-> FALSE, entries |-> EmptyBag]

(* tar.add of the whole tree, then the close at the end of the with block *)
TarAdd(a, root, t) ==
    [exists |-> TRUE, complete |-> TRUE, entries |-> a.entries (+) Members(root, t)]

(* tar.add interrupted by an error: only part of the tree was written, a   *)
(* directory always before what it contains                                *)
PartialTrees(root, t) ==
    {sub \in SUBSET t :
        /\ sub # t
        /\ \A p \in sub : Dirname(p) = root \/ Dirname(p) \in sub}

----------------------------------------------------------------------------
(* Actions: the stages of main() *)

env  == <<args, listing, readable, text, onDisk, corrupt>>
host == <<toolPresent, dataKind, tree, archive>>

(* lines 168-177, find_changes_file returns *)
LocateOk ==
    /\ pc = "locate"
    /\ LET r == find_changes_file(args.path_to_changes, listing)
       IN /\ ~r.raised
          /\ changes_path' = r.path
          /\ work_dir' = Dirname(r.path)
    /\ stages' = Append(stages, "locator")
    /\ pc' = "parse"
    /\ UNCHANGED <<env, host, run, debs, deb_names, idx, extracted_any, ok,
                   tar_path, exit_code, failed, resolved, calls, wrote, start,
                   first_archive>>

(* lines 168-172, find_changes_file raises FileNotFoundError *)
LocateFails ==
    /\ pc = "locate"
    /\ find_changes_file(args.path_to_changes, listing).raised
    /\ pc' = "done"
    /\ exit_code' = 1
    /\ failed' = "locator"
    /\ UNCHANGED <<env, host, run, changes_path, work_dir, debs, deb_names, idx,
                   extracted_any, ok, tar_path, stages, resolved, calls, wrote,
                   start, first_archive>>

(* lines 180-181, collect_debs_from_changes returns *)
ParseOk ==
    /\ pc = "parse"
    /\ LET r == collect_debs_from_changes(readable, text)
       IN /\ ~r.raised
          /\ debs' = r.debs
          /\ deb_names' = r.uniq
    /\ stages' = Append(stages, "parser")
    /\ pc' = "extract"
    /\ UNCHANGED <<env, host, run, changes_path, work_dir, idx, extracted_any,
                   ok, tar_path, exit_code, failed, resolved, calls, wrote,
                   start, first_archive>>

(* lines 180-184, collect_debs_from_changes raises RuntimeError *)
ParseFails ==
    /\ pc = "parse"
    /\ LET r == collect_debs_from_changes(readable, text)
       IN /\ r.raised
          /\ debs' = r.debs
    /\ pc' = "done"
    /\ exit_code' = 1
    /\ failed' = "parser"
    /\ UNCHANGED <<env, host, run, changes_path, work_dir, deb_names, idx,
                   extracted_any, ok, tar_path, stages, resolved, calls, wrote,
                   start, first_archive>>

(* lines 116-119 *)
ExtractBegin ==
    /\ pc = "extract"
    /\ dataKind # "file"
    /\ dataKind' = "dir"
    /\ idx' = 1
    /\ extracted_any' = FALSE
    /\ pc' = "loop"
    /\ UNCHANGED <<env, toolPresent, tree, archive, run, changes_path, work_dir,
                   debs, deb_names, ok, tar_path, exit_code, stages, failed,
                   resolved, calls, wrote, start, first_archive>>

(* mutant: the top-level handler logs the exception and does not exit 1 *)
ExtractMakedirsRaises_ExitsZero ==
    /\ pc = "extract"
    /\ dataKind = "file"
    /\ pc' = "done"
    /\ exit_code' = 0
    /\ failed' = "uncaught"
    /\ UNCHANGED <<env, host, run, changes_path, work_dir, debs, deb_names, idx,
                   extracted_any, ok, tar_path, stages, resolved, calls, wrote,
                   start, first_archive>>

(* line 117: data exists and is not a directory, os.makedirs raises        *)
(* FileExistsError; main does not catch it, lines 216-221 do               *)
ExtractMakedirsRaises ==
    /\ pc = "extract"
    /\ dataKind = "file"
    /\ pc' = "done"
    /\ exit_code' = 1
    /\ failed' = "uncaught"
    /\ UNCHANGED <<env, host, run, changes_path, work_dir, debs, deb_names, idx,
                   extracted_any, ok, tar_path, stages, resolved, calls, wrote,
                   start, first_archive>>

(* lines 121-124: the referenced file is not there *)
ExtractSkipMissing ==
    /\ pc = "loop"
    /\ idx <= Len(deb_names)
    /\ DebPath(work_dir, deb_names[idx]) \notin onDisk
    /\ resolved' = Append(resolved, deb_names[idx])
    /\ idx' = idx + 1
    /\ UNCHANGED <<env, host, pc, run, changes_path, work_dir, debs, deb_names,
                   extracted_any, ok, tar_path, exit_code, stages, failed, calls,
                   wrote, start, first_archive>>

(* lines 121-135: dpkg-deb exits 0 *)
ExtractToolOk ==
    /\ pc = "loop"
    /\ idx <= Len(deb_names)
    /\ LET deb_path == DebPath(work_dir, deb_names[idx])
           dest_dir == DestDir(work_dir, deb_path, args.arch)
       IN /\ deb_path \in onDisk
          /\ toolPresent
          /\ deb_path \notin corrupt
          /\ tree' = tree \cup DirsBelow(DataRoot(work_dir), dest_dir)
                          \cup Payload(deb_path, dest_dir)
          /\ calls' = Append(calls, [path |-> deb_path, outcome |-> "exit 0"])
    /\ resolved' = Append(resolved, deb_names[idx])
    /\ extracted_any' = TRUE
    /\ idx' = idx + 1
    /\ UNCHANGED <<env, toolPresent, dataKind, archive, pc, run, changes_path,
                   work_dir, debs, deb_names, ok, tar_path, exit_code, stages,
                   failed, wrote, start, first_archive>>

(* lines 121-134, 139-140: dpkg-deb exits nonzero, CalledProcessError *)
ExtractToolFails ==
    /\ pc = "loop"
    /\ idx <= Len(deb_names)
    /\ LET deb_path == DebPath(work_dir, deb_names[idx])
           dest_dir == DestDir(work_dir, deb_path, args.arch)
       IN /\ deb_path \in onDisk
          /\ toolPresent
          /\ deb_path \in corrupt
          /\ tree' = tree \cup DirsBelow(DataRoot(work_dir), dest_dir)
          /\ calls' = Append(calls, [path |-> deb_path, outcome |-> "exit nonzero"])
    /\ resolved' = Append(resolved, deb_names[idx])
    /\ idx' = idx + 1
    /\ UNCHANGED <<env, toolPresent, dataKind, archive, pc, run, changes_path,
                   work_dir, debs, deb_names, extracted_any, ok, tar_path,
                   exit_code, stages, failed, wrote, start, first_archive>>

(* mutant: FileNotFoundError is logged and the loop goes on *)
ExtractToolAbsent_Continues ==
    /\ pc = "loop"
    /\ idx <= Len(deb_names)
    /\ LET deb_path == DebPath(work_dir, deb_names[idx])
           dest_dir == DestDir(work_dir, deb_path, args.arch)
       IN /\ deb_path \in onDisk
          /\ ~toolPresent
          /\ tree' = tree \cup DirsBelow(DataRoot(work_dir), dest_dir)
          /\ calls' = Append(calls, [path |-> deb_path, outcome |-> "absent"])
    /\ resolved' = Append(resolved, deb_names[idx])
    /\ idx' = idx + 1
    /\ UNCHANGED <<env, toolPresent, dataKind, archive, pc, run, changes_path,
                   work_dir, debs, deb_names, extracted_any, ok, tar_path,
                   exit_code, stages, failed, wrote, start, first_archive>>

(* lines 121-134, 136-138, 188-189: dpkg-deb is not installed,             *)
(* FileNotFoundError, return False, sys.exit(1)                            *)
ExtractToolAbsent ==
    /\ pc = "loop"
    /\ idx <= Len(deb_names)
    /\ LET deb_path == DebPath(work_dir, deb_names[idx])
           dest_dir == DestDir(work_dir, deb_path, args.arch)
       IN /\ deb_path \in onDisk
          /\ ~toolPresent
          /\ tree' = tree \cup DirsBelow(DataRoot(work_dir), dest_dir)
          /\ calls' = Append(calls, [path |-> deb_path, outcome |-> "absent"])
    /\ resolved' = Append(resolved, deb_names[idx])
    /\ ok' = "False"
    /\ pc' = "done"
    /\ exit_code' = 1
    /\ failed' = "tool_absent"
    /\ UNCHANGED <<env, toolPresent, dataKind, archive, run, changes_path,
                   work_dir, debs, deb_names, idx, extracted_any, tar_path,
                   stages, wrote, start, first_archive>>

(* lines 142-145 with extracted_any set, line 187 *)
ExtractReturnsTrue ==
    /\ pc = "loop"
    /\ idx > Len(deb_names)
    /\ ExtractResult(extracted_any)
    /\ ok' = "True"
    /\ stages' = Append(stages, "extractor")
    /\ pc' = "archive"
    /\ UNCHANGED <<env, host, run, changes_path, work_dir, debs, deb_names, idx,
                   extracted_any, tar_path, exit_code, failed, resolved, calls,
                   wrote, start, first_archive>>

(* lines 142-144 with extracted_any unset, lines 187-189 *)
ExtractReturnsFalse ==
    /\ pc = "loop"
    /\ idx > Len(deb_names)
    /\ ~ExtractResult(extracted_any)
    /\ ok' = "False"
    /\ pc' = "done"
    /\ exit_code' = 1
    /\ failed' = "extractor"
    /\ UNCHANGED <<env, host, run, changes_path, work_dir, debs, deb_names, idx,
                   extracted_any, tar_path, stages, resolved, calls, wrote,
                   start, first_archive>>

(* the host loses dpkg-deb while the loop runs: the next subprocess.run    *)
(* raises FileNotFoundError                                                *)
ToolUninstalled ==
    /\ pc = "loop"
    /\ idx <= Len(deb_names)
    /\ toolPresent
    /\ toolPresent' = FALSE
    /\ UNCHANGED <<env, dataKind, tree, archive, pc, run, changes_path, work_dir,
                   debs, deb_names, idx, extracted_any, ok, tar_path, exit_code,
                   stages, failed, resolved, calls, wrote, start, first_archive>>

(* lines 192-205, 153-159, 208-210: create_tar_of_data raises before the   *)
(* archive file exists: data/ is missing, or os.makedirs or tarfile.open   *)
(* fails with an OSError                                                   *)
ArchiveRaisesEarly ==
    /\ pc = "archive"
    /\ \E cause \in {"no data", "makedirs", "open"} :
          cause = "no data" => dataKind # "dir"
    /\ tar_path' = TarPath(args, work_dir, TarName(Basename(changes_path)))
    /\ pc' = "done"
    /\ exit_code' = 1
    /\ failed' = "archiver"
    /\ UNCHANGED <<env, host, run, changes_path, work_dir, debs, deb_names, idx,
                   extracted_any, ok, stages, resolved, calls, wrote, start,
                   first_archive>>

(* lines 192-205, 153-160, 208-210: tarfile.open succeeds, tar.add raises  *)
(* (a member cannot be read, the disk is full); the with block closes the  *)
(* file and nothing removes it                                             *)
ArchiveAddRaises ==
    /\ pc = "archive"
    /\ dataKind = "dir"
    /\ tar_path' = TarPath(args, work_dir, TarName(Basename(changes_path)))
    /\ \E part \in PartialTrees(DataRoot(work_dir), tree) :
          archive' = [TarOpen(archive) EXCEPT
                         !.entries = Members(DataRoot(work_dir), part)]
    /\ wrote' = TRUE
    /\ pc' = "done"
    /\ exit_code' = 1
    /\ failed' = "archiver"
    /\ UNCHANGED <<env, toolPresent, dataKind, tree, run, changes_path, work_dir,
                   debs, deb_names, idx, extracted_any, ok, stages, resolved,
                   calls, start, first_archive>>

(* lines 192-207, 153-161, 212 *)
ArchiveOk ==
    /\ pc = "archive"
    /\ dataKind = "dir"
    /\ tar_path' = TarPath(args, work_dir, TarName(Basename(changes_path)))
    /\ archive' = TarAdd(TarOpen(archive), DataRoot(work_dir), tree)
    /\ wrote' = TRUE
    /\ stages' = Append(stages, "archiver")
    /\ pc' = "done"
    /\ exit_code' = 0
    /\ first_archive' = IF run = 1 THEN archive' ELSE first_archive
    /\ UNCHANGED <<env, toolPresent, dataKind, tree, run, changes_path, work_dir,
                   debs, deb_names, idx, extracted_any, ok, failed, resolved,
                   calls, start>>

(* the program is started again with the same command line on the same     *)
(* host, after a run that exited 0                                         *)
MaxRuns == 2

RunAgain ==
    /\ pc = "done"
    /\ exit_code = 0
    /\ run < MaxRuns
    /\ run' = run + 1
    /\ pc' = "locate"
    /\ changes_path' = <<>>
    /\ work_dir' = <<>>
    /\ debs' = <<>>
    /\ deb_names' = <<>>
    /\ idx' = 0
    /\ extracted_any' = FALSE
    /\ ok' = "unset"
    /\ tar_path' = <<>>
    /\ exit_code' = -1
    /\ stages' = <<>>
    /\ failed' = "none"
    /\ resolved' = <<>>
    /\ calls' = <<>>
    /\ wrote' = FALSE
    /\ start' = [dataKind |-> dataKind, tree |-> tree]
    /\ UNCHANGED <<env, host, first_archive>>

----------------------------------------------------------------------------
(* The pipeline *)

Arm64 == <<"a", "r", "m", "6", "4">>

PathsToChanges == {
    <<>>,
    <<"/", "w", "/", "p", ".", "c", "h", "a", "n", "g", "e", "s">>,
    <<"/", "n">> }

Listings == {
    <<>>,
    << [name |-> <<"p", ".", "c", "h", "a", "n", "g", "e", "s">>, mtime |-> 1] >>,
    << [name |-> <<"p", ".", "c", "h", "a", "n", "g", "e", "s">>, mtime |-> 1],
       [name |-> <<"q", ".", "c", "h", "a", "n", "g", "e", "s">>, mtime |-> 2] >> }

Destinations == {
    [output_tar |-> <<>>,  distro |-> <<>>],
    [output_tar |-> <<"/", "o">>, distro |-> <<"n">>],
    [output_tar |-> <<"o">>,  distro |-> <<>>] }

MainTexts == {
    <<"x", " ", "1", "\n">>,
    <<" ", "a", "_", "1", ".", "d", "e", "b", "\n",
      " ", "c", ".", "d", "e", "b", "\n",
      " ", "/", "o", "/", "a", "_", "2", ".", "d", "e", "b", "\n">>,
    <<"c", ".", "d", "e", "b", " ", "a", "_", "1", ".", "d", "e", "b", " ", "c", ".", "d", "e", "b">> }

DataStates == {
    [dataKind |-> "absent", tree |-> {}],
    [dataKind |-> "file",   tree |-> {}],
    [dataKind |-> "dir",    tree |-> {Join(DataRoot(Dir), <<"o", "l", "d">>)}] }

(* the paths the references of a manifest in Dir resolve to *)
RefPaths(t) == {DebPath(Dir, ScanDebs(t)[k]) : k \in 1..Len(ScanDebs(t))}

Idle(at) ==
    /\ pc = at
    /\ run = 1
    /\ changes_path = <<>>
    /\ work_dir = <<>>
    /\ debs = <<>>
    /\ deb_names = <<>>
    /\ idx = 0
    /\ extracted_any = FALSE
    /\ ok = "unset"
    /\ tar_path = <<>>
    /\ exit_code = -1
    /\ stages = <<>>
    /\ failed = "none"
    /\ resolved = <<>>
    /\ calls = <<>>
    /\ wrote = FALSE
    /\ first_archive = NoArchive

Init ==
    /\ \E p \in PathsToChanges, d \in Destinations :
          args = [path_to_changes |-> p, output_tar |-> d.output_tar,
                  arch |-> Arm64, distro |-> d.distro]
    /\ listing \in Listings
    /\ \/ readable = TRUE /\ text \in MainTexts
       \/ readable = FALSE /\ text = <<>>
    /\ onDisk \in SUBSET RefPaths(text)
    /\ corrupt \in SUBSET onDisk
    /\ toolPresent = TRUE
    /\ \E s \in DataStates :
          /\ dataKind = s.dataKind
          /\ tree = s.tree
          /\ start = s
    /\ archive = NoArchive
    /\ Idle("locate")

Next ==
    \/ LocateOk
    \/ LocateFails
    \/ ParseOk
    \/ ParseFails
    \/ ExtractBegin
    \/ ExtractMakedirsRaises
    \/ ExtractSkipMissing
    \/ ExtractToolOk
    \/ ExtractToolFails
    \/ ExtractToolAbsent
    \/ ExtractReturnsTrue
    \/ ExtractReturnsFalse
    \/ ToolUninstalled
    \/ ArchiveRaisesEarly
    \/ ArchiveAddRaises
    \/ ArchiveOk
    \/ RunAgain

Spec == Init /\ [][Next]_vars

----------------------------------------------------------------------------
(* The locator alone: find_changes_file over every listing of at most      *)
(* MaxFiles entries with modification times up to MaxMtime.                *)

MaxFiles == 3
MaxMtime == 2

LocNames == { <<"a", ".", "c", "h", "a", "n", "g", "e", "s">>, <<"b", ".", "c", "h", "a", "n", "g", "e", "s">>, <<".", "h", ".", "c", "h", "a", "n", "g", "e", "s">>, <<"x", ".", "d", "e", "b">> }

LocEntries == [name : LocNames, mtime : 1..MaxMtime]

LocListings ==
    UNION { {ls \in [1..n -> LocEntries] :
                \A i, j \in 1..n : i # j => ls[i].name # ls[j].name} :
            n \in 0..MaxFiles }

LocPaths == { <<>>, <<"/", "w", "/", "b", ".", "c", "h", "a", "n", "g", "e", "s">>, <<"/", "w", "/", "x", ".", "d", "e", "b">>, <<".", ".", "/", "n">> }

LocatorInit ==
    /\ \E p \in LocPaths :
          args = [path_to_changes |-> p, output_tar |-> <<>>,
                  arch |-> Arm64, distro |-> <<>>]
    /\ listing \in LocListings
    /\ readable = TRUE
    /\ text = <<>>
    /\ onDisk = {}
    /\ corrupt = {}
    /\ toolPresent = TRUE
    /\ dataKind = "absent"
    /\ tree = {}
    /\ start = [dataKind |-> "absent", tree |-> {}]
    /\ archive = NoArchive
    /\ Idle("locate")

LocatorNext == LocateOk \/ LocateFails

LocatorSpec == LocatorInit /\ [][LocatorNext]_vars

----------------------------------------------------------------------------
(* The parser alone: the manifest text is any concatenation of at most     *)
(* MaxPieces pieces.                                                        *)

MaxPieces == 5

Pieces == {
    <<"a", ".", "d", "e", "b">>,
    <<"c", ".", "d", "e", "b">>,
    <<" ">>,
    <<"\n">>,
    <<"\\", "s">>,
    <<"\\", ".", "d", "e", "b", "\\", "b">> }

RECURSIVE Texts(_)
Texts(n) ==
    IF n = 0 THEN {<<>>}
    ELSE Texts(n - 1) \cup {t \o piece : t \in Texts(n - 1), piece \in Pieces}

ParserInit ==
    /\ args = [path_to_changes |-> <<>>, output_tar |-> <<>>,
               arch |-> Arm64, distro |-> <<>>]
    /\ listing = <<>>
    /\ readable = TRUE
    /\ text \in Texts(MaxPieces)
    /\ onDisk = {}
    /\ corrupt = {}
    /\ toolPresent = TRUE
    /\ dataKind = "absent"
    /\ tree = {}
    /\ start = [dataKind |-> "absent", tree |-> {}]
    /\ archive = NoArchive
    /\ Idle("parse")

ParserNext == ParseOk \/ ParseFails

ParserSpec == ParserInit /\ [][ParserNext]_vars

----------------------------------------------------------------------------
(* The archiver alone: lines 192-210 for every manifest path, --output-tar *)
(* and --distro of the sets below.                                          *)

ManifestPaths == { <<"/", "w", "/", "p", ".", "c", "h", "a", "n", "g", "e", "s">>, <<"/", "p", ".", "c", "h", "a", "n", "g", "e", "s">>, <<"/", "w", "/", ".", "c", "h", "a", "n", "g", "e", "s">>, <<"/", "w", "/", "v", "/", "q", ".", "c", "h", "a", "n", "g", "e", "s", ".", "c", "h", "a", "n", "g", "e", "s">> }

OutputTars == { <<>>, <<"/", "o", "u", "t">>, <<"o">>, <<"/", "o", "/">>, <<".", ".">>, <<"/">>, <<".", "/", "o", "/", ".", ".", "/", "t">> }

Distros == { <<>>, <<"n", "o", "b", "l", "e">> }

PathInit ==
    /\ \E o \in OutputTars, d \in Distros :
          args = [path_to_changes |-> <<>>, output_tar |-> o,
                  arch |-> Arm64, distro |-> d]
    /\ listing = <<>>
    /\ readable = TRUE
    /\ text = <<>>
    /\ onDisk = {}
    /\ corrupt = {}
    /\ toolPresent = TRUE
    /\ changes_path \in ManifestPaths
    /\ work_dir = Dirname(changes_path)
    /\ dataKind = "dir"
    /\ tree = DirsBelow(DataRoot(work_dir), Join(Join(DataRoot(work_dir), <<"a">>), Arm64))
    /\ start = [dataKind |-> dataKind, tree |-> tree]
    /\ archive = NoArchive
    /\ pc = "archive"
    /\ run = 1
    /\ debs = <<>>
    /\ deb_names = <<>>
    /\ idx = 0
    /\ extracted_any = TRUE
    /\ ok = "True"
    /\ tar_path = <<>>
    /\ exit_code = -1
    /\ stages = <<"locator", "parser", "extractor">>
    /\ failed = "none"
    /\ resolved = <<>>
    /\ calls = <<>>
    /\ wrote = FALSE
    /\ first_archive = NoArchive

PathNext == ArchiveRaisesEarly \/ ArchiveAddRaises \/ ArchiveOk

PathSpec == PathInit /\ [][PathNext]_vars

----------------------------------------------------------------------------
(* Properties of the parser (ParserSpec) *)

Range(s) == {s[i] : i \in 1..Len(s)}

NoDuplicates(s) == \A i, j \in 1..Len(s) : i # j => s[i] # s[j]

FirstIndex(s, x) ==
    CHOOSE i \in 1..Len(s) : s[i] = x /\ \A j \in 1..(i - 1) : s[j] # x

ScenarioB == <<"a", ".", "d", "e", "b", " ", "a", ".", "d", "e", "b", " ", "c", ".", "d", "e", "b">>

\* C6: the list collect_debs_from_changes returns has no duplicate entries,
\* holds every reference the scan found, and lists the references in the
\* order of their first occurrence; the manifest "a.deb a.deb c.deb" yields
\* [a.deb, c.deb].
C6_NoDupFirstOccurrence ==
    pc = "extract" =>
        /\ NoDuplicates(deb_names)
        /\ Range(deb_names) = Range(debs)
        /\ \A i, j \in 1..Len(deb_names) :
              i < j => FirstIndex(debs, deb_names[i]) < FirstIndex(debs, deb_names[j])
        /\ text = ScenarioB => deb_names = << <<"a", ".", "d", "e", "b">>, <<"c", ".", "d", "e", "b">> >>

C6_Witness ==
    /\ pc = "extract"
    /\ text = ScenarioB
    /\ Len(debs) = 3
    /\ Len(deb_names) = 2

(* the whitespace-delimited tokens of t that end in .deb: the maximal runs *)
(* of non-whitespace characters with that suffix                           *)
IsTokenAt(t, i, j) ==
    /\ i <= j
    /\ \A k \in i..j : t[k] \notin Whitespace
    /\ (i = 1 \/ t[i - 1] \in Whitespace)
    /\ (j = Len(t) \/ t[j + 1] \in Whitespace)

DebTokensOf(t) ==
    {SubSeq(t, ij[1], ij[2]) :
        ij \in {x \in (1..Len(t)) \X (1..Len(t)) :
                   /\ IsTokenAt(t, x[1], x[2])
                   /\ EndsWith(SubSeq(t, x[1], x[2]), DotDeb)}}

\* C10: the references collect_debs_from_changes returns are exactly the
\* whitespace-delimited tokens of the text that end in .deb: no such token
\* is left out and nothing that is not such a token is returned.
C10_ExactlyDebTokens ==
    (pc = "extract" \/ failed = "parser") => Range(deb_names) = DebTokensOf(text)

----------------------------------------------------------------------------
(* Properties of the locator (LocatorSpec) *)

(* the directory case of find_changes_file: the path names Dir and is not  *)
(* itself a .changes file *)
GivenDir == AbsPath(IF args.path_to_changes = <<>> THEN <<".">> ELSE args.path_to_changes)

DirCase == GivenDir = Dir

(* the manifest files of a listing: the entries glob's *.changes matches *)
Candidates(ls) == {ls[k] : k \in {i \in 1..Len(ls) : GlobMatches(ls[i].name)}}

Latest(entries) == {e \in entries : \A o \in entries : o.mtime <= e.mtime}

(* the listings that enumerate the same entries in another order *)
Reorderings(ls) ==
    {r \in [1..Len(ls) -> Range(ls)] : Range(r) = Range(ls)}

\* C7: for a directory holding one or more manifest files find_changes_file
\* returns the manifest with the latest modification time, and returns the
\* same file whatever the order in which the entries are enumerated.
C7_LatestAnyOrder ==
    (DirCase /\ pc # "locate" /\ Candidates(listing) # {}) =>
        /\ pc = "parse"
        /\ \E e \in Latest(Candidates(listing)) : changes_path = Join(Dir, e.name)
        /\ \A r \in Reorderings(listing) :
              find_changes_file(args.path_to_changes, r).path = changes_path

\* C7 as amended: for a directory in which glob matches one or more entries
\* (names that end in .changes and do not begin with a dot)
\* find_changes_file returns a matched entry of the latest modification
\* time; when only one matched entry has that time the file returned is the
\* same whatever the enumeration order, and among several of that time it
\* is the one enumerated first.
C7_LatestOfCandidates ==
    (DirCase /\ pc # "locate" /\ Candidates(listing) # {}) =>
        /\ pc = "parse"
        /\ \E e \in Latest(Candidates(listing)) : changes_path = Join(Dir, e.name)
        /\ Cardinality(Latest(Candidates(listing))) = 1 =>
              \A r \in Reorderings(listing) :
                  find_changes_file(args.path_to_changes, r).path = changes_path
        /\ \A k \in 1..Len(listing) :
              (listing[k] \in Latest(Candidates(listing))
                  /\ \A j \in 1..(k - 1) : listing[j] \notin Latest(Candidates(listing)))
              => changes_path = Join(Dir, listing[k].name)

\* Scenario A with the older manifest enumerated last
C7_Witness ==
    /\ DirCase
    /\ pc = "parse"
    /\ Len(Glob(Dir, listing)) = 2
    /\ Glob(Dir, listing)[1].mtime > Glob(Dir, listing)[2].mtime
    /\ changes_path = Glob(Dir, listing)[1].path

----------------------------------------------------------------------------
(* Properties of the destination path (PathSpec) *)

Components(p) == SplitFrom(p, {"/"}, 1, <<>>)

(* the directory a sequence of components leads to from the root *)
RECURSIVE Walk(_, _, _)
Walk(comps, i, at) ==
    IF i > Len(comps) THEN at
    ELSE IF comps[i] = <<".">> THEN Walk(comps, i + 1, at)
    ELSE IF comps[i] = <<".", ".">>
         THEN Walk(comps, i + 1, IF at = <<>> THEN at ELSE SubSeq(at, 1, Len(at) - 1))
         ELSE Walk(comps, i + 1, Append(at, comps[i]))

(* <base>: the absolute --output-tar directory, else the manifest's directory *)
BaseComponents ==
    IF args.output_tar # <<>>
    THEN Walk((IF IsAbs(args.output_tar) THEN <<>> ELSE Components(Cwd))
                  \o Components(args.output_tar), 1, <<>>)
    ELSE Components(Dirname(changes_path))

(* <name>: the manifest's basename, .changes replaced by .tar.gz *)
ArchiveName ==
    LET base == Basename(changes_path)
    IN IF EndsWith(base, DotChanges)
       THEN SubSeq(base, 1, Len(base) - Len(DotChanges)) \o DotTarGz
       ELSE base \o DotTarGz

\* C8: the final archive path is <base>/<name> when --distro is empty and
\* <base>/prebuilt_<distro>/<name> when it is set, <base> being the absolute
\* --output-tar directory if given and the manifest's directory otherwise,
\* <name> the manifest's basename with .changes replaced by .tar.gz.
C8_ArchivePath ==
    tar_path # <<>> =>
        /\ IsAbs(tar_path)
        /\ Components(tar_path) =
              BaseComponents
              \o (IF args.distro = <<>> THEN <<>> ELSE << <<"p", "r", "e", "b", "u", "i", "l", "t", "_">> \o args.distro >>)
              \o << ArchiveName >>

\* Scenario E: --output-tar /out --distro noble, manifest p.changes
C8_Witness ==
    /\ pc = "done"
    /\ exit_code = 0
    /\ args.output_tar = <<"/", "o", "u", "t">>
    /\ args.distro = <<"n", "o", "b", "l", "e">>
    /\ Basename(changes_path) = <<"p", ".", "c", "h", "a", "n", "g", "e", "s">>
    /\ tar_path = <<"/", "o", "u", "t", "/", "p", "r", "e", "b", "u", "i", "l", "t", "_", "n", "o", "b", "l", "e", "/", "p", ".", "t", "a", "r", ".", "g", "z">>

----------------------------------------------------------------------------
(* Properties of the pipeline (Spec) *)

AllStages == <<"locator", "parser", "extractor", "archiver">>

(* the references of the run that are on disk and that dpkg-deb unpacks *)
Extractable ==
    {k \in 1..Len(deb_names) :
        /\ DebPath(work_dir, deb_names[k]) \in onDisk
        /\ DebPath(work_dir, deb_names[k]) \notin corrupt}

\* C1: a run that ends on a fatal path exits nonzero and has written no
\* archive, partial or complete, at the destination; the archive file is
\* opened for writing only after the loop has processed every reference and
\* the extractor has reported success.
C1_NoArchiveOnFatalPath ==
    /\ failed # "none" => (pc = "done" /\ exit_code = 1 /\ ~wrote)
    /\ wrote => (ok = "True" /\ resolved = deb_names)

\* C2: with dpkg-deb present at every invocation, extract_debs_to_data
\* processes every reference in list order, a missing file or a nonzero exit
\* not stopping the loop, and reports success if and only if at least one
\* reference was extracted with exit status zero.
C2_ExtractorResult ==
    (ok # "unset" /\ \A k \in 1..Len(calls) : calls[k].outcome # "absent") =>
        /\ resolved = deb_names
        /\ LET paths == [k \in 1..Len(deb_names) |-> DebPath(work_dir, deb_names[k])]
           IN [k \in 1..Len(calls) |-> calls[k].path]
                 = SelectSeq(paths, LAMBDA q : q \in onDisk)
        /\ ok = "True" <=> Extractable # {}

\* Scenario C: one reference missing from disk, another extracted
C2_Witness ==
    /\ ok = "True"
    /\ \E k \in 1..Len(deb_names) : DebPath(work_dir, deb_names[k]) \notin onDisk
    /\ \E k \in 1..Len(calls) : calls[k].outcome = "exit nonzero"
    /\ \E k \in 1..Len(calls) : calls[k].outcome = "exit 0"

InputError ==
    \/ find_changes_file(args.path_to_changes, listing).raised
    \/ ~readable
    \/ collect_debs_from_changes(readable, text).uniq = <<>>

\* C4: when the manifest cannot be located, cannot be read or yields no
\* reference, the process exits 1 before the extractor is entered: data/ is
\* left as it was and dpkg-deb is never invoked; such a run never exits 0.
C4_InputErrorsStopEarly ==
    (InputError /\ pc \notin {"locate", "parse"}) =>
        /\ pc = "done"
        /\ failed \in {"locator", "parser"}
        /\ exit_code = 1
        /\ resolved = <<>>
        /\ calls = <<>>
        /\ dataKind = start.dataKind
        /\ tree = start.tree

\* a readable manifest without references, data/ absent before and after
C4_Witness ==
    /\ failed = "parser"
    /\ readable
    /\ text # <<>>
    /\ deb_names = <<>>
    /\ dataKind = "absent"
    /\ exit_code = 1

(* a step of the program itself, the host's own changes left out *)
ProgramStep ==
    \/ LocateOk \/ LocateFails \/ ParseOk \/ ParseFails
    \/ ExtractBegin \/ ExtractMakedirsRaises
    \/ ExtractSkipMissing \/ ExtractToolOk \/ ExtractToolFails \/ ExtractToolAbsent
    \/ ExtractReturnsTrue \/ ExtractReturnsFalse
    \/ ArchiveRaisesEarly \/ ArchiveAddRaises \/ ArchiveOk

(* the position of a run, counted in the order main() goes through it *)
Progress(p) ==
    CASE p = "locate" -> 0
      [] p = "parse" -> 1
      [] p = "extract" -> 2
      [] p = "loop" -> 3
      [] p = "archive" -> 4
      [] p = "done" -> 5

(* a step moves the run forward: to a later position, or to the next
   reference of the list inside the extractor's loop *)
Advances ==
    \/ Progress(pc') > Progress(pc)
    \/ /\ pc = "loop" /\ pc' = "loop"
       /\ idx <= Len(deb_names)
       /\ idx' = idx + 1

(* the exit code of a run and the stages it went through *)
ExitCodes ==
    /\ \E n \in 0..4 : stages = SubSeq(AllStages, 1, n)
    /\ pc # "done" => (exit_code = -1 /\ failed = "none")
    /\ pc = "done" =>
          /\ exit_code \in {0, 1}
          /\ exit_code = 0 <=>
                (stages = AllStages /\ tar_path # <<>> /\ archive.complete)
          /\ exit_code = 1 <=> failed # "none"

\* C5: every step of a run moves it forward through finitely many positions,
\* so it cannot loop, and it ends with exit code 0 or 1; the code is 0 exactly
\* when the locator, the parser, the extractor and the archiver succeeded in
\* that order and the archive path was returned, and 1 whenever a stage
\* fails, an exception that escapes main() included.
C5_ExitCodes ==
    /\ []ExitCodes
    /\ [][ProgramStep => Advances]_vars

\* the FileExistsError of os.makedirs reaches the handler of lines 216-221
C5_Witness ==
    /\ pc = "done"
    /\ failed = "uncaught"
    /\ exit_code = 1
    /\ stages = <<"locator", "parser">>

\* C9: a second run against the same manifest, archives and arguments
\* re-uses data/ without error, re-extracts into the directories the first
\* run made, adding nothing to the tree, and leaves an archive with the same
\* entries as the first, each once: the destination is overwritten, not
\* appended to.
C9_SecondRunSameEntries ==
    run >= 2 =>
        /\ failed # "uncaught"
        /\ tree = start.tree
        /\ first_archive.complete
        /\ Members(DataRoot(Dir), tree) = first_archive.entries
        /\ (pc = "done" /\ exit_code = 0) => archive = first_archive

C9_Witness ==
    /\ run = 2
    /\ pc = "done"
    /\ exit_code = 0
    /\ Len(calls) = 3
    /\ archive = first_archive
    /\ Cardinality(tree) > 4

====
